---- MODULE Spec2Model ----
(***************************************************************************)
(* CamoufoxBrowserSession (src/custom/camoufox_browser_session.py) and the *)
(* callers that drive it: the two Textual workers of camoufox_tui_fixed.py *)
(* ('browser_startup', 'agent_task') and the coroutine that owns the       *)
(* session ('main': create_camoufox_session / the scripts / the manager of *)
(* camoufox_advanced.py).                                                  *)
(*                                                                         *)
(* One step of the model is one uninterrupted run of a coroutine between   *)
(* two awaits (asyncio: single-threaded, cooperative).  A Python None is   *)
(* the empty sequence, an object reference a one-element sequence, a dict  *)
(* a function from its keys, a list a sequence.                            *)
(*                                                                         *)
(* Every awaited step of start() and close() either completes or raises an *)
(* Exception.  start() may be called by any task at any time; close() is   *)
(* called by the owner when no call on the session is in progress, as in   *)
(* every caller in custom/ (start, use, close in one coroutine; the        *)
(* TUI closes after the app has ended).  The parent class BrowserSession   *)
(* belongs to the browser_use package: is_connected(), stop(),             *)
(* _reset_connection_state() and the setup_browser_via_* steps are         *)
(* modelled by their effect on the fields this class reads.                *)
(***************************************************************************)
EXTENDS Naturals, Sequences, FiniteSets

\* ------------------------------------------------------------------ bounds
MaxLaunches == 2      \* AsyncCamoufox objects constructed in one behaviour
MaxPages == 1         \* pages an adopted (pre-existing) context may already hold
MaxArgs == 2          \* arguments the user gives on the command line
MaxWords == 4         \* words in the task given to run_task

\* ------------------------------------------------------------------ values
None == << >>

Workers == {"browser_startup", "agent_task"}

Owner == "main"

Tasks == Workers \cup {Owner}

\* the id of a browser attached to rather than launched: no launch number
RemoteBrowser == MaxLaunches + 1

VARIABLES
    initialized,         \* self.initialized
    browser,             \* self.browser: None or <<id>>
    browser_context,     \* self.browser_context: None or <<id of its browser>>
    pages,               \* len(self.browser_context.pages), 0 without a context
    camoufox_instance,   \* self._camoufox_instance: None or <<launch number>>
    start_lock,          \* self._start_lock: None or <<holder>>
    live,                \* browsers whose is_connected() is true
    launches,            \* AsyncCamoufox(...) constructions so far
    pc,                  \* where each task stands
    ret,                 \* how each task's last start() call ended
    happened,            \* which of "raise", "crash", "close" has occurred
    had_instance,        \* _camoufox_instance was set when the last close() began
    stop_calls,          \* calls of self.stop() made by the last close()
    close_ret,           \* how the last close() ended
    close_warned,        \* the last close() logged its warning
    cdp_url,             \* the session was given a browser to attach to
    ctor,                \* the keyword arguments the session was constructed with
    camoufox_options,    \* self.camoufox_options
    firefox_user_prefs,  \* self.firefox_user_prefs
    args,                \* self.args
    permissions,         \* self.browser_profile.permissions
    launched_with,       \* the keyword arguments of the last AsyncCamoufox(...)
    grant_calls,         \* argument lists of grant_permissions in the last _setup_viewports
    fn,                  \* the script function that is running, "none" without one
    inp,                 \* its arguments
    spc,                 \* where it stands
    loc,                 \* its local variables
    log,                 \* the calls it has made, in order
    result               \* how it ended: its return value, exit status or exception

lifecycle == <<initialized, browser, browser_context, pages, camoufox_instance,
               start_lock, live, launches, pc, ret, happened>>

closing == <<had_instance, stop_calls, close_ret, close_warned>>

config == <<cdp_url, ctor, camoufox_options, firefox_user_prefs, args, permissions>>

script == <<fn, inp, spc, loc, log, result>>

session == <<lifecycle, closing, config, launched_with, grant_calls>>

vars == <<session, script>>

\* ------------------------------------------------------------ dicts, lists
EmptyDict == [k \in {} |-> "None"]

\* {**a, **b}
Merge(a, b) ==
    [k \in DOMAIN a \cup DOMAIN b |-> IF k \in DOMAIN b THEN b[k] ELSE a[k]]

SeqToSet(s) == {s[i] : i \in DOMAIN s}

\* every list that list(set(...)) can return for the set S
Orderings(S) ==
    {s \in [1..Cardinality(S) -> S] : \A i, j \in DOMAIN s : i # j => s[i] # s[j]}

\* ------------------------------------------- CamoufoxManager.create_session
stealth_update ==
    [k \in {"block_webrtc", "block_images", "humanize", "geoip", "screen"} |->
        CASE k = "block_webrtc" -> "True"
          [] k = "block_images" -> "False"
          [] k = "humanize" -> "True"
          [] k = "geoip" -> "True"
          [] OTHER -> "(1920, 1080)"]

default_permissions == <<"clipboard-read", "clipboard-write", "notifications">>

\* the keyword arguments create_session hands to CamoufoxBrowserSession(...)
create_session(headless, stealth_mode, options) ==
    [headless |-> headless,
     kw |-> EmptyDict,
     nested |-> << IF stealth_mode THEN Merge(options, stealth_update) ELSE options >>,
     prefs |-> EmptyDict,
     args |-> << >>,
     permissions |-> default_permissions]

\* ---------------------------------------- CamoufoxBrowserSession.__init__
PoppedDefault(k) == IF k = "geoip" THEN "True" ELSE "None"

\* self.camoufox_options as __init__ leaves it, from the keyword arguments kw
InitCamoufoxOptions(kw) ==
    LET base == [k \in {"geoip", "addons", "fonts", "screen", "os"} |->
                    IF k \in DOMAIN kw THEN kw[k] ELSE PoppedDefault(k)]
        given == {k \in {"block_webgl", "block_webrtc", "disable_coop"} :
                    k \in DOMAIN kw /\ kw[k] # "None"}
    IN  Merge(base, [k \in given |-> kw[k]])

\* ------------------------ CamoufoxBrowserSession.setup_new_browser_context
default_firefox_prefs ==
    [k \in {"gfx.webrender.software", "fission.autostart", "dom.ipc.processCount"} |->
        CASE k = "gfx.webrender.software" -> "True"
          [] k = "fission.autostart" -> "False"
          [] OTHER -> "4"]

default_launch_args == <<"--disable-gpu">>

\* the merge the other way round: the defaults win
DefaultsWin == Merge(firefox_user_prefs, default_firefox_prefs)

\* firefox_prefs = {**default_firefox_prefs, **self.firefox_user_prefs}
firefox_prefs == Merge(default_firefox_prefs, firefox_user_prefs)

\* launch_args = list(set(default_launch_args + self.args)): the set
launch_arg_set == SeqToSet(default_launch_args \o args)

\* camoufox_options of setup_new_browser_context, launch_args being the list order
LaunchOptions(order) ==
    [options |-> Merge([k \in {"headless"} |-> ctor.headless], camoufox_options),
     config |-> [disableTheming |-> "True", showcursor |-> "False"],
     firefox_user_prefs |-> firefox_prefs,
     args |-> order]

\* ------------------------------ CamoufoxBrowserSession._setup_viewports
Unsupported == {"clipboard-read", "clipboard-write"}

\* a filter that lets 'clipboard-write' through
SupportedButWrite(p) == p # "clipboard-read"

\* p not in ['clipboard-read', 'clipboard-write']
Supported(p) == p \notin Unsupported

supported_permissions == SelectSeq(permissions, Supported)

\* the grant_permissions calls one run of _setup_viewports makes
GrantCalls ==
    IF permissions # << >> /\ supported_permissions # << >>
    THEN << supported_permissions >>
    ELSE << >>

\* ------------------------------------------------------------- the callers
\* create_camoufox_session (camoufox_tui_fixed.py): browser_profile and geoip only
TuiCtor(geoip) ==
    [headless |-> "False",
     kw |-> [k \in {"geoip"} |-> geoip],
     nested |-> None,
     prefs |-> EmptyDict,
     args |-> << >>,
     permissions |-> default_permissions]

\* test_stealth_features (test_camoufox_complete.py): camoufox_options=stealth_options
StealthTestCtor ==
    [headless |-> "True",
     kw |-> EmptyDict,
     nested |-> << [k \in {"block_webrtc", "humanize", "geoip"} |-> "True"] >>,
     prefs |-> EmptyDict,
     args |-> << >>,
     permissions |-> default_permissions]

KwChoices ==
    {EmptyDict,
     [k \in {"geoip", "block_webgl"} |-> IF k = "geoip" THEN "False" ELSE "True"],
     [k \in {"screen", "block_webrtc"} |-> IF k = "screen" THEN "(1280, 720)" ELSE "None"]}

PrefChoices ==
    {EmptyDict,
     [k \in {"dom.ipc.processCount"} |-> "2"],
     [k \in {"gfx.webrender.software", "browser.tabs.remote.autostart"} |-> "False"]}

ArgChoices ==
    {<< >>,
     <<"--disable-gpu">>,
     <<"--safe-mode", "--disable-gpu", "--safe-mode">>,
     <<"--disable-webgl", "--safe-mode">>}

PermissionChoices ==
    {<< >>,
     default_permissions,
     <<"clipboard-write", "clipboard-read">>,
     <<"notifications", "clipboard-read", "geolocation">>}

\* the scripts that pass nothing but the profile
PlainCtor ==
    [headless |-> "True", kw |-> EmptyDict, nested |-> None, prefs |-> EmptyDict,
     args |-> << >>, permissions |-> default_permissions]

\* the stability scripts: keyword arguments given to the session directly
DirectCtors ==
    {[PlainCtor EXCEPT !.kw = k] : k \in KwChoices}
    \cup {[PlainCtor EXCEPT !.prefs = p, !.args = a] : p \in PrefChoices, a \in ArgChoices}
    \cup {[PlainCtor EXCEPT !.permissions = q] : q \in PermissionChoices}

ManagerCtors ==
    {create_session(h, s, o) :
        h \in {"True", "False"}, s \in BOOLEAN,
        o \in {EmptyDict, [k \in {"os"} |-> "windows"]}}

\* ------------------------------------------------------------------- Init
\* the session as __init__ leaves it, constructed with the keyword arguments c
Constructed(c, attach) ==
    /\ initialized = FALSE
    /\ browser = None
    /\ browser_context = None
    /\ pages = 0
    /\ camoufox_instance = None
    /\ start_lock = None
    /\ live = {}
    /\ launches = 0
    /\ pc = [t \in Tasks |-> "idle"]
    /\ ret = [t \in Tasks |-> "none"]
    /\ happened = {}
    /\ had_instance = FALSE
    /\ stop_calls = 0
    /\ close_ret = "none"
    /\ close_warned = FALSE
    /\ cdp_url = attach
    /\ ctor = c
    /\ camoufox_options = InitCamoufoxOptions(c.kw)
    /\ firefox_user_prefs = c.prefs
    /\ args = c.args
    /\ permissions = c.permissions
    /\ launched_with = None
    /\ grant_calls = << >>

\* the local variables of a script function before its first statement
NoLocals == [created |-> FALSE, exc |-> "none", i |-> 1, results |-> << >>, list |-> << >>]

\* no script function is followed: the session is driven through its methods
NoScript ==
    /\ fn = "none"
    /\ inp = None
    /\ spc = "done"
    /\ loc = NoLocals
    /\ log = << >>
    /\ result = "none"

Init ==
    /\ \E g \in {"True", "False"}, attach \in BOOLEAN : Constructed(TuiCtor(g), attach)
    /\ NoScript

InitConfig ==
    /\ \E c \in DirectCtors \cup ManagerCtors \cup {StealthTestCtor}, attach \in BOOLEAN :
            Constructed(c, attach)
    /\ NoScript

\* ---------------------------------------------------- the parent's helpers
\* BrowserSession.is_connected: a context exists and its browser is connected
is_connected ==
    /\ browser_context # None
    /\ browser # None => browser[1] \in live
    /\ browser_context[1] \in live

StartSteps ==
    <<"prepare_profile", "setup_playwright", "setup_browser_via_passed_objects",
      "setup_browser_via_browser_pid", "setup_browser_via_wss_url",
      "setup_browser_via_cdp_url", "setup_new_browser_context",
      "_setup_viewports", "_setup_current_page_change_listeners">>

\* the parent's steps that leave the modelled fields alone
ParentSteps == {StartSteps[i] : i \in 1..5}

\* awaits inside setup_new_browser_context and _setup_viewports
InnerAwaits == {"aenter", "new_context", "new_page"}

BodyPcs == SeqToSet(StartSteps) \cup InnerAwaits

StartPcs == {"lock"} \cup BodyPcs

ClosePcs == {"aexit", "stop"}

\* start() without its setup_browser_via_cdp_url step
StepAfterNoCdp(s) ==
    IF s = "setup_browser_via_wss_url" THEN "setup_new_browser_context"
    ELSE StartSteps[(CHOOSE i \in DOMAIN StartSteps : StartSteps[i] = s) + 1]

\* the statement after s in the try block of start()
StepAfter(s) == StartSteps[(CHOOSE i \in DOMAIN StartSteps : StartSteps[i] = s) + 1]

\* ------------------------------------------------------------------ start
\* a script awaits session.start()
CallStart ==
    /\ pc[Owner] = "idle"
    /\ pc' = [pc EXCEPT ![Owner] = "lock"]
    /\ ret' = [ret EXCEPT ![Owner] = "none"]
    /\ UNCHANGED <<initialized, browser, browser_context, pages, camoufox_instance,
                   start_lock, live, launches, happened>>
    /\ UNCHANGED <<closing, config, script, launched_with, grant_calls>>

\* start_browser / agent_task_worker: start() only after is_connected() was false
WorkerStart(t) ==
    /\ t \in Workers
    /\ pc[t] = "idle"
    /\ pc[Owner] \notin ClosePcs
    /\ ~is_connected
    /\ pc' = [pc EXCEPT ![t] = "lock"]
    /\ ret' = [ret EXCEPT ![t] = "none"]
    /\ UNCHANGED <<initialized, browser, browser_context, pages, camoufox_instance,
                   start_lock, live, launches, happened>>
    /\ UNCHANGED <<closing, config, script, launched_with, grant_calls>>

\* start() without the lock
LockIgnored == TRUE

\* async with self._start_lock: the lock can be taken
LockFree == start_lock = None

\* start() without its early return
AlwaysRestart == FALSE

\* if self.initialized and self.is_connected()
AlreadyRunning == initialized /\ is_connected

\* the lock is taken and start() returns self at once
StartAlreadyRunning(t) ==
    /\ pc[t] = "lock"
    /\ LockFree
    /\ AlreadyRunning
    /\ pc' = [pc EXCEPT ![t] = "idle"]
    /\ ret' = [ret EXCEPT ![t] = "returned"]
    /\ UNCHANGED <<initialized, browser, browser_context, pages, camoufox_instance,
                   start_lock, live, launches, happened>>
    /\ UNCHANGED <<closing, config, script, launched_with, grant_calls>>

\* the lock is taken, _reset_connection_state(), initialized = True
StartBegin(t) ==
    /\ pc[t] = "lock"
    /\ LockFree
    /\ ~AlreadyRunning
    /\ launches < MaxLaunches
    /\ start_lock' = <<t>>
    /\ browser' = None
    /\ browser_context' = None
    /\ pages' = 0
    /\ initialized' = TRUE
    /\ pc' = [pc EXCEPT ![t] = StartSteps[1]]
    /\ UNCHANGED <<camoufox_instance, live, launches, ret, happened>>
    /\ UNCHANGED <<closing, config, script, launched_with, grant_calls>>

\* prepare_user_data_dir .. setup_browser_via_wss_url
ParentStep(t) ==
    /\ pc[t] \in ParentSteps
    /\ pc' = [pc EXCEPT ![t] = StepAfter(pc[t])]
    /\ UNCHANGED <<initialized, browser, browser_context, pages, camoufox_instance,
                   start_lock, live, launches, ret, happened>>
    /\ UNCHANGED <<closing, config, script, launched_with, grant_calls>>

\* setup_browser_via_cdp_url: attaches when the session was given a browser
CdpStep(t) ==
    /\ pc[t] = "setup_browser_via_cdp_url"
    /\ IF cdp_url
       THEN /\ browser' = <<RemoteBrowser>>
            /\ browser_context' = <<RemoteBrowser>>
            /\ pages' \in 0..MaxPages
            /\ live' = live \cup {RemoteBrowser}
       ELSE UNCHANGED <<browser, browser_context, pages, live>>
    /\ pc' = [pc EXCEPT ![t] = StepAfter(pc[t])]
    /\ UNCHANGED <<initialized, camoufox_instance, start_lock, launches, ret, happened>>
    /\ UNCHANGED <<closing, config, script, launched_with, grant_calls>>

\* setup_new_browser_context: a context already exists
SkipCamoufox(t) ==
    /\ pc[t] = "setup_new_browser_context"
    /\ browser_context # None
    /\ pc' = [pc EXCEPT ![t] = StepAfter(pc[t])]
    /\ UNCHANGED <<initialized, browser, browser_context, pages, camoufox_instance,
                   start_lock, live, launches, ret, happened>>
    /\ UNCHANGED <<closing, config, script, launched_with, grant_calls>>

\* setup_new_browser_context: self._camoufox_instance = AsyncCamoufox(**camoufox_options)
LaunchCamoufox(t) ==
    /\ pc[t] = "setup_new_browser_context"
    /\ browser_context = None
    /\ \E order \in Orderings(launch_arg_set) :
            launched_with' = << LaunchOptions(order) >>
    /\ camoufox_instance' = <<launches + 1>>
    /\ launches' = launches + 1
    /\ pc' = [pc EXCEPT ![t] = "aenter"]
    /\ UNCHANGED <<initialized, browser, browser_context, pages, start_lock, live,
                   ret, happened>>
    /\ UNCHANGED <<closing, config, script, grant_calls>>

\* __aenter__ returned: self.browser is set; browser.contexts[0] is taken if any
Aenter(t) ==
    /\ pc[t] = "aenter"
    /\ live' = live \cup {camoufox_instance[1]}
    /\ browser' = camoufox_instance
    /\ \/ /\ browser_context' = camoufox_instance
          /\ pages' \in 0..MaxPages
          /\ pc' = [pc EXCEPT ![t] = "_setup_viewports"]
       \/ /\ pc' = [pc EXCEPT ![t] = "new_context"]
          /\ UNCHANGED <<browser_context, pages>>
    /\ UNCHANGED <<initialized, camoufox_instance, start_lock, launches, ret, happened>>
    /\ UNCHANGED <<closing, config, script, launched_with, grant_calls>>

\* self.browser_context = await self.browser.new_context(...)
NewContext(t) ==
    /\ pc[t] = "new_context"
    /\ browser[1] \in live
    /\ browser_context' = browser
    /\ pages' = 0
    /\ pc' = [pc EXCEPT ![t] = "_setup_viewports"]
    /\ UNCHANGED <<initialized, browser, camoufox_instance, start_lock, live, launches,
                   ret, happened>>
    /\ UNCHANGED <<closing, config, script, launched_with, grant_calls>>

\* assert self.browser_context; _setup_viewports up to the page loop
SetupViewports(t) ==
    /\ pc[t] = "_setup_viewports"
    /\ browser_context # None
    /\ grant_calls' = GrantCalls
    /\ pc' = [pc EXCEPT ![t] = "new_page"]
    /\ UNCHANGED <<initialized, browser, browser_context, pages, camoufox_instance,
                   start_lock, live, launches, ret, happened>>
    /\ UNCHANGED <<closing, config, script, launched_with>>

\* _setup_viewports without the page it creates
NoNewPage == pages

\* page = page or (await self.browser_context.new_page()): the pages afterwards
EnsurePage == IF pages = 0 THEN 1 ELSE pages

\* the page loop of _setup_viewports and the page it creates when there is none
\* (new_page needs a live browser; an existing page is taken as it is)
NewPage(t) ==
    /\ pc[t] = "new_page"
    /\ pages = 0 => browser_context[1] \in live
    /\ pages' = EnsurePage
    /\ pc' = [pc EXCEPT ![t] = StepAfter("_setup_viewports")]
    /\ UNCHANGED <<initialized, browser, browser_context, camoufox_instance,
                   start_lock, live, launches, ret, happened>>
    /\ UNCHANGED <<closing, config, script, launched_with, grant_calls>>

\* _setup_current_page_change_listeners is done; return self, the lock is released
StartReturn(t) ==
    /\ pc[t] = "_setup_current_page_change_listeners"
    /\ start_lock' = None
    /\ pc' = [pc EXCEPT ![t] = "idle"]
    /\ ret' = [ret EXCEPT ![t] = "returned"]
    /\ UNCHANGED <<initialized, browser, browser_context, pages, camoufox_instance,
                   live, launches, happened>>
    /\ UNCHANGED <<closing, config, script, launched_with, grant_calls>>

\* the handler forgets to clear the flag
InitializedKept == initialized

\* except Exception: what self.initialized is set to
InitializedAfterRaise == FALSE

\* a step of the try block raises: except Exception, raise, the lock is released
StartRaise(t) ==
    /\ pc[t] \in BodyPcs
    /\ initialized' = InitializedAfterRaise
    /\ start_lock' = None
    /\ pc' = [pc EXCEPT ![t] = "idle"]
    /\ ret' = [ret EXCEPT ![t] = "raised"]
    /\ happened' = happened \cup {"raise"}
    /\ UNCHANGED <<browser, browser_context, pages, camoufox_instance, live, launches>>
    /\ UNCHANGED <<closing, config, script, launched_with, grant_calls>>

\* ------------------------------------------------------------------ close
\* close() up to its first await; the owner calls it once the session's
\* start() calls are over
CloseBegin ==
    /\ \A t \in Tasks : pc[t] = "idle"
    /\ had_instance' = (camoufox_instance # None)
    /\ stop_calls' = 0
    /\ close_ret' = "none"
    /\ close_warned' = FALSE
    /\ happened' = happened \cup {"close"}
    /\ IF camoufox_instance # None
       THEN /\ browser_context' = None
            /\ browser' = None
            /\ pages' = 0
            /\ pc' = [pc EXCEPT ![Owner] = "aexit"]
       ELSE /\ pc' = [pc EXCEPT ![Owner] = "stop"]
            /\ UNCHANGED <<browser_context, browser, pages>>
    /\ UNCHANGED <<initialized, camoufox_instance, start_lock, live, launches, ret>>
    /\ UNCHANGED <<config, script, launched_with, grant_calls>>

\* await self._camoufox_instance.__aexit__(None, None, None) returned
CloseAexit ==
    /\ pc[Owner] = "aexit"
    /\ live' = live \ {camoufox_instance[1]}
    /\ camoufox_instance' = None
    /\ pc' = [pc EXCEPT ![Owner] = "stop"]
    /\ UNCHANGED <<initialized, browser, browser_context, pages, start_lock, launches,
                   ret, happened>>
    /\ UNCHANGED <<closing, config, script, launched_with, grant_calls>>

\* close() without its handler: the exception leaves close()
CloseUncaught ==
    /\ close_warned' = FALSE
    /\ close_ret' = "raised"
    /\ pc' = [pc EXCEPT ![Owner] = "idle"]

\* except Exception as e: logger.warning(...); close() returns
CloseCaught ==
    /\ close_warned' = TRUE
    /\ close_ret' = "returned"
    /\ pc' = [pc EXCEPT ![Owner] = "idle"]

\* __aexit__ raised
CloseAexitRaise ==
    /\ pc[Owner] = "aexit"
    /\ CloseCaught
    /\ UNCHANGED <<initialized, browser, browser_context, pages, camoufox_instance,
                   start_lock, live, launches, ret, happened>>
    /\ UNCHANGED <<had_instance, stop_calls, config, script, launched_with, grant_calls>>

\* await self.stop() returned: the parent has dropped its connection state
CloseStop ==
    /\ pc[Owner] = "stop"
    /\ stop_calls' = stop_calls + 1
    /\ initialized' = FALSE
    /\ browser' = None
    /\ browser_context' = None
    /\ pages' = 0
    /\ close_ret' = "returned"
    /\ pc' = [pc EXCEPT ![Owner] = "idle"]
    /\ UNCHANGED <<camoufox_instance, start_lock, live, launches, ret, happened>>
    /\ UNCHANGED <<had_instance, close_warned, config, script, launched_with, grant_calls>>

\* self.stop() raised
CloseStopRaise ==
    /\ pc[Owner] = "stop"
    /\ stop_calls' = stop_calls + 1
    /\ CloseCaught
    /\ UNCHANGED <<initialized, browser, browser_context, pages, camoufox_instance,
                   start_lock, live, launches, ret, happened>>
    /\ UNCHANGED <<had_instance, config, script, launched_with, grant_calls>>

\* ------------------------------------------------------------ environment
\* a browser process dies: its is_connected() turns false
Crash ==
    /\ \E b \in live : live' = live \ {b}
    /\ happened' = happened \cup {"crash"}
    /\ UNCHANGED <<initialized, browser, browser_context, pages, camoufox_instance,
                   start_lock, launches, pc, ret>>
    /\ UNCHANGED <<closing, config, script, launched_with, grant_calls>>

\* --------------------------------------------------------- specifications
StartBody(t) ==
    \/ StartAlreadyRunning(t)
    \/ StartBegin(t)
    \/ ParentStep(t)
    \/ CdpStep(t)
    \/ SkipCamoufox(t)
    \/ LaunchCamoufox(t)
    \/ Aenter(t)
    \/ NewContext(t)
    \/ SetupViewports(t)
    \/ NewPage(t)
    \/ StartReturn(t)
    \/ StartRaise(t)

Close ==
    \/ CloseBegin
    \/ CloseAexit
    \/ CloseAexitRaise
    \/ CloseStop
    \/ CloseStopRaise

Next ==
    \/ CallStart
    \/ \E t \in Workers : WorkerStart(t)
    \/ \E t \in Tasks : StartBody(t)
    \/ Close
    \/ Crash

Spec == Init /\ [][Next]_vars

\* one coroutine constructs, starts and closes the session
NextConfig ==
    \/ CallStart
    \/ StartBody(Owner)
    \/ Close
    \/ Crash

SpecConfig == InitConfig /\ [][NextConfig]_vars

\* ================================================================= scripts
\* A script function runs in one coroutine.  A call it makes either returns
\* or raises; log gets one entry <<callee, outcome>> per call.
Step(to) == spc' = to

Called(e) == log' = Append(log, e)

Has(e) == \E k \in DOMAIN log : log[k] = e

\* the calls of session.close() made so far
Closes == Cardinality({k \in DOMAIN log : log[k][1] = "close"})

\* a call other than close() raised an Exception
BodyRaised == \E k \in DOMAIN log : log[k][1] # "close" /\ log[k][2] = "raised"

\* how the function ends when exc is in flight at its end
Propagated(exc) ==
    CASE exc = "none" -> "returned"
      [] exc = "exception" -> "raised"
      [] OTHER -> exc

\* bool(v) of an optional string
Truthy(v) == v \notin {"None", ""}

\* ------------------------- camoufox_tui_fixed.py: create_camoufox_session
\* the statements of the async with block of camoufox_textual_interface
TuiBody == <<"Controller", "get_llm", "run_async">>

\* create_camoufox_session up to its yield
CmEnter ==
    /\ fn = "camoufox_textual_interface"
    /\ spc = "begin"
    /\ \/ /\ Called(<<"CamoufoxBrowserSession", "returned">>)
          /\ loc' = [loc EXCEPT !.created = TRUE]
          /\ Step("body")
       \/ /\ Called(<<"CamoufoxBrowserSession", "raised">>)
          /\ loc' = [loc EXCEPT !.exc = "exception"]
          /\ Step("finally")
    /\ UNCHANGED <<fn, inp, result, session>>

\* Controller(), get_llm(config), await app.run_async(): each returns or
\* raises; the coroutine can be cancelled while it awaits the app
CmBody ==
    /\ fn = "camoufox_textual_interface"
    /\ spc = "body"
    /\ LET s == TuiBody[loc.i] IN
         \/ /\ Called(<<s, "returned">>)
            /\ IF loc.i < Len(TuiBody)
               THEN loc' = [loc EXCEPT !.i = @ + 1] /\ Step("body")
               ELSE UNCHANGED loc /\ Step("finally")
         \/ /\ Called(<<s, "raised">>)
            /\ loc' = [loc EXCEPT !.exc = "exception"]
            /\ Step("finally")
         \/ /\ s = "run_async"
            /\ Called(<<s, "cancelled">>)
            /\ loc' = [loc EXCEPT !.exc = "cancelled"]
            /\ Step("finally")
    /\ UNCHANGED <<fn, inp, result, session>>

\* the generator without try/finally: close() only after a normal exit
CmClosesOnNormalExit(created, exc) == created /\ exc = "none"

\* finally: if browser_session: (whatever ended the block)
CmCloses(created, exc) == created

\* the finally clause: close() in its own try/except Exception, then the
\* exception that ended the block, if any, goes on
CmExit ==
    /\ fn = "camoufox_textual_interface"
    /\ spc = "finally"
    /\ IF CmCloses(loc.created, loc.exc)
       THEN \E o \in {"returned", "raised"} : Called(<<"close", o>>)
       ELSE UNCHANGED log
    /\ result' = Propagated(loc.exc)
    /\ Step("done")
    /\ UNCHANGED <<fn, inp, loc, session>>

\* ----------------------- run_browseruse_brave_profile.py: run_brave_browseruse
Prompts == {"None", "", "open example.com"}

\* if interactive and not prompt / elif prompt / else
BraveBranch(interactive, prompt) ==
    IF interactive /\ ~Truthy(prompt) THEN "close"
    ELSE IF Truthy(prompt) THEN "Agent" ELSE "sleep"

\* await browser_session.start()
BraveStart ==
    /\ fn = "run_brave_browseruse"
    /\ spc = "begin"
    /\ \/ /\ Called(<<"start", "returned">>)
          /\ Step(BraveBranch(inp.interactive, inp.prompt))
       \/ /\ Called(<<"start", "raised">>)
          /\ Step("finally")
    /\ UNCHANGED <<fn, inp, loc, result, session>>

\* interactive mode: await browser_session.close() before the TUI
BraveCloseFirst ==
    /\ fn = "run_brave_browseruse"
    /\ spc = "close"
    /\ \/ Called(<<"close", "returned">>) /\ Step("textual_interface")
       \/ Called(<<"close", "raised">>) /\ Step("finally")
    /\ UNCHANGED <<fn, inp, loc, result, session>>

\* await textual_interface(config)
BraveTui ==
    /\ fn = "run_brave_browseruse"
    /\ spc = "textual_interface"
    /\ \E o \in {"returned", "raised"} : Called(<<"textual_interface", o>>)
    /\ Step("finally")
    /\ UNCHANGED <<fn, inp, loc, result, session>>

\* agent = Agent(...)
BraveAgent ==
    /\ fn = "run_brave_browseruse"
    /\ spc = "Agent"
    /\ \/ Called(<<"Agent", "returned">>) /\ Step("agent.run")
       \/ Called(<<"Agent", "raised">>) /\ Step("finally")
    /\ UNCHANGED <<fn, inp, loc, result, session>>

\* result = await agent.run(): returns, raises, or Ctrl-C arrives
BraveAgentRun ==
    /\ fn = "run_brave_browseruse"
    /\ spc = "agent.run"
    /\ \/ /\ \E o \in {"returned", "raised"} : Called(<<"agent.run", o>>)
          /\ UNCHANGED loc
       \/ /\ Called(<<"agent.run", "KeyboardInterrupt">>)
          /\ loc' = [loc EXCEPT !.exc = "KeyboardInterrupt"]
    /\ Step("finally")
    /\ UNCHANGED <<fn, inp, result, session>>

\* while True: await asyncio.sleep(1), left by KeyboardInterrupt (caught) or
\* by cancellation
BraveSleep ==
    /\ fn = "run_brave_browseruse"
    /\ spc = "sleep"
    /\ \/ /\ Called(<<"sleep", "KeyboardInterrupt">>)
          /\ UNCHANGED loc
       \/ /\ Called(<<"sleep", "cancelled">>)
          /\ loc' = [loc EXCEPT !.exc = "cancelled"]
    /\ Step("finally")
    /\ UNCHANGED <<fn, inp, result, session>>

\* the finally clause closing in non-interactive mode only
BraveClosesNonInteractive(interactive, prompt) == ~interactive

\* finally: if not interactive or prompt:
BraveFinallyCloses(interactive, prompt) == ~interactive \/ Truthy(prompt)

\* the finally clause; an exception of this close() leaves the function
BraveFinally ==
    /\ fn = "run_brave_browseruse"
    /\ spc = "finally"
    /\ IF BraveFinallyCloses(inp.interactive, inp.prompt)
       THEN \/ Called(<<"close", "returned">>) /\ result' = Propagated(loc.exc)
            \/ Called(<<"close", "raised">>) /\ result' = "raised"
       ELSE UNCHANGED log /\ result' = Propagated(loc.exc)
    /\ Step("done")
    /\ UNCHANGED <<fn, inp, loc, session>>

\* --------- debug_tui, test_integration, test_browser_use_integration
TryFns == {"debug_tui", "test_integration", "test_browser_use_integration"}

\* the calls of the try block, in statement order
TrySteps(f) ==
    CASE f = "debug_tui" ->
            <<"load_user_config", "get_llm", "Controller", "BrowserProfile",
              "CamoufoxBrowserSession", "start", "Agent", "get_current_page", "goto",
              "get_state_summary", "agent.step", "close">>
      [] f = "test_integration" ->
            <<"load_user_config", "get_llm", "Controller", "BrowserProfile",
              "CamoufoxBrowserSession", "start", "get_current_page", "goto", "close">>
      [] f = "test_browser_use_integration" ->
            <<"BrowserProfile", "CamoufoxBrowserSession", "start", "get_current_page",
              "goto", "wait_for_load_state", "title", "evaluate", "evaluate", "close">>

\* what the function returns after its try block
TryReturns(f) ==
    IF f = "test_browser_use_integration" THEN {"True", "False"} ELSE {"True"}

\* one call of the try block: it returns, or it raises and
\* except Exception returns False
TryStep ==
    /\ fn \in TryFns
    /\ spc = "begin"
    /\ LET s == TrySteps(fn)[loc.i] IN
         \/ /\ Called(<<s, "returned">>)
            /\ IF loc.i < Len(TrySteps(fn))
               THEN loc' = [loc EXCEPT !.i = @ + 1] /\ Step("begin")
               ELSE UNCHANGED loc /\ Step("return")
            /\ UNCHANGED result
         \/ /\ Called(<<s, "raised">>)
            /\ result' = "False"
            /\ Step("done")
            /\ UNCHANGED loc
    /\ UNCHANGED <<fn, inp, session>>

\* return True (test_browser_use_integration: the title check decides)
TryReturn ==
    /\ fn \in TryFns
    /\ spc = "return"
    /\ result' \in TryReturns(fn)
    /\ Step("done")
    /\ UNCHANGED <<fn, inp, loc, log, session>>

\* ------------------------------------------- run_browseruse_brave_tui.py
\* what the user typed after the program name
UserArgs == {"--debug", "--headless"}

UserArgLists == UNION {[1..n -> UserArgs] : n \in 0..MaxArgs}

\* the options of the assignment to sys.argv, after sys.argv[0]
BraveOptions ==
    <<"--user-data-dir", "~/Library/Application Support/BraveSoftware/Brave-Browser",
      "--profile-directory", "Default",
      "--window-width", "1280", "--window-height", "1024">>

\* sys.argv = [sys.argv[0], ...]; if len(sys.argv) > 1: sys.argv.extend(sys.argv[1:])
brave_tui_argv(argv) ==
    LET assigned == <<argv[1]>> \o BraveOptions
    IN  IF Len(assigned) > 1 THEN assigned \o Tail(assigned) ELSE assigned

\* the __main__ block: cli_main() runs with the argument vector built
BraveTuiMain ==
    /\ fn = "run_browseruse_brave_tui"
    /\ spc = "begin"
    /\ loc' = [loc EXCEPT !.list = brave_tui_argv(inp)]
    /\ \E o \in {"returned", "raised"} :
            /\ Called(<<"cli_main", o>>)
            /\ result' = o
    /\ Step("done")
    /\ UNCHANGED <<fn, inp, session>>

\* ------------------------------ debug_camoufox_fixed.py: debug_camoufox_fixed
test_sites ==
    <<"https://example.com", "https://httpbin.org", "https://www.wikipedia.org",
      "https://duckduckgo.com", "https://www.google.com", "https://www.youtube.com">>

\* str(e) of the exceptions a navigation raises
Messages == {"Target page CRASHED", "Timeout 30000ms exceeded"}

\* str.lower() on these messages
LowerMessage(m) ==
    CASE m = "Target page CRASHED" -> "target page crashed"
      [] m = "Timeout 30000ms exceeded" -> "timeout 30000ms exceeded"

\* "crashed" in str(e).lower()
DetectedCrash(m) == LowerMessage(m) \in {"target page crashed"}

\* the for loop goes to its next element, or ends
NextSite ==
    IF loc.i < Len(test_sites)
    THEN loc' = [loc EXCEPT !.i = @ + 1] /\ Step("goto")
    ELSE UNCHANGED loc /\ Step("finally")

\* await browser_session.start()
FixedStart ==
    /\ fn = "debug_camoufox_fixed"
    /\ spc = "begin"
    /\ \/ Called(<<"start", "returned">>) /\ Step("get_current_page")
       \/ Called(<<"start", "raised">>) /\ Step("finally")
    /\ UNCHANGED <<fn, inp, loc, result, session>>

\* page = await browser_session.get_current_page()
FixedGetPage ==
    /\ fn = "debug_camoufox_fixed"
    /\ spc = "get_current_page"
    /\ \/ Called(<<"get_current_page", "returned">>) /\ Step("goto")
       \/ Called(<<"get_current_page", "raised">>) /\ Step("finally")
    /\ UNCHANGED <<fn, inp, loc, result, session>>

\* await page.goto(url, wait_until="domcontentloaded", timeout=30000) in the
\* loop's try; except Exception looks for 'crashed' in the message
FixedGoto ==
    /\ fn = "debug_camoufox_fixed"
    /\ spc = "goto"
    /\ \/ /\ Called(<<"goto", "returned", test_sites[loc.i], "domcontentloaded">>)
          /\ NextSite
       \/ \E m \in Messages :
            /\ Called(<<"goto", m, test_sites[loc.i], "domcontentloaded">>)
            /\ IF DetectedCrash(m)
               THEN UNCHANGED loc /\ Step("about:blank")
               ELSE NextSite
    /\ UNCHANGED <<fn, inp, result, session>>

\* inside the handler, outside any try: await page.goto("about:blank")
FixedBlank ==
    /\ fn = "debug_camoufox_fixed"
    /\ spc = "about:blank"
    /\ \/ Called(<<"goto", "returned", "about:blank", "load">>) /\ Step("evaluate")
       \/ Called(<<"goto", "raised", "about:blank", "load">>) /\ Step("finally")
    /\ UNCHANGED <<fn, inp, loc, result, session>>

\* inside the handler, outside any try: await page.evaluate(...)
FixedEvaluate ==
    /\ fn = "debug_camoufox_fixed"
    /\ spc = "evaluate"
    /\ \/ Called(<<"evaluate", "returned">>) /\ Step("fallback")
       \/ Called(<<"evaluate", "raised">>) /\ Step("finally")
    /\ UNCHANGED <<fn, inp, loc, result, session>>

\* try: await page.goto(url, wait_until="networkidle", timeout=10000) except: log
FixedFallback ==
    /\ fn = "debug_camoufox_fixed"
    /\ spc = "fallback"
    /\ \E o \in {"returned", "raised"} :
            Called(<<"goto", o, test_sites[loc.i], "networkidle">>)
    /\ NextSite
    /\ UNCHANGED <<fn, inp, result, session>>

\* finally: if 'browser_session' in locals(): await browser_session.close()
FixedFinally ==
    /\ fn = "debug_camoufox_fixed"
    /\ spc = "finally"
    /\ \E o \in {"returned", "raised"} :
            /\ Called(<<"close", o>>)
            /\ result' = o
    /\ Step("done")
    /\ UNCHANGED <<fn, inp, loc, session>>

\* --------------------------------------- debug_camoufox_tui_enhanced.py
\* the calls of test_agent_execution_flow before it runs the agent
FlowSteps ==
    <<"load_user_config", "get_llm", "Controller", "BrowserProfile",
      "CamoufoxBrowserSession", "start", "get_current_page", "goto",
      "AgentSettings", "DebugAgent">>

\* one of these calls: it returns, or it raises and except Exception returns False
FlowStep ==
    /\ fn = "debug_camoufox_tui_enhanced"
    /\ spc = "begin"
    /\ LET s == FlowSteps[loc.i] IN
         \/ /\ Called(<<s, "returned">>)
            /\ loc' = [loc EXCEPT !.i = IF @ < Len(FlowSteps) THEN @ + 1 ELSE @,
                                  !.created = @ \/ s = "CamoufoxBrowserSession"]
            /\ Step(IF loc.i < Len(FlowSteps) THEN "begin" ELSE "wait_for")
         \/ /\ Called(<<s, "raised">>)
            /\ loc' = [loc EXCEPT !.results = <<"False">>]
            /\ Step("flow_finally")
    /\ UNCHANGED <<fn, inp, result, session>>

\* what test_agent_execution_flow returns for an outcome of run_with_timeout()
FlowReturn(o) == IF o = "returned" THEN "True" ELSE "False"

\* await asyncio.wait_for(agent.run(), timeout=30.0): done in time, timed out
\* (re-raised, except asyncio.TimeoutError) or raised (except Exception)
FlowWaitFor ==
    /\ fn = "debug_camoufox_tui_enhanced"
    /\ spc = "wait_for"
    /\ \E o \in {"returned", "timeout", "raised"} :
            /\ Called(<<"agent.run", o>>)
            /\ loc' = [loc EXCEPT !.results = <<FlowReturn(o)>>]
    /\ Step("flow_finally")
    /\ UNCHANGED <<fn, inp, result, session>>

\* finally: if browser_session: close() in its own try/except Exception
FlowFinally ==
    /\ fn = "debug_camoufox_tui_enhanced"
    /\ spc = "flow_finally"
    /\ IF loc.created
       THEN \E o \in {"returned", "raised"} : Called(<<"close", o>>)
       ELSE UNCHANGED log
    /\ Step("main")
    /\ UNCHANGED <<fn, inp, loc, result, session>>

\* main running the second test whatever the first returned
AlwaysMimicry(test1_passed) == TRUE

\* if test1_passed:
RunsMimicry(test1_passed) == test1_passed = "True"

\* main after test 1: test_tui_mimicry() is called, or test2_passed = False
EnhancedMain ==
    /\ fn = "debug_camoufox_tui_enhanced"
    /\ spc = "main"
    /\ IF RunsMimicry(loc.results[1])
       THEN /\ Called(<<"test_tui_mimicry", "called">>)
            /\ Step("mimicry")
            /\ UNCHANGED loc
       ELSE /\ loc' = [loc EXCEPT !.results = Append(@, "False")]
            /\ Step("summary")
            /\ UNCHANGED log
    /\ UNCHANGED <<fn, inp, result, session>>

\* test_tui_mimicry up to its try: an exception here leaves main and the process
MimicrySetup ==
    /\ fn = "debug_camoufox_tui_enhanced"
    /\ spc = "mimicry"
    /\ \/ /\ Called(<<"start", "returned">>)
          /\ Step("mimicry_wait_for")
          /\ UNCHANGED result
       \/ /\ Called(<<"start", "raised">>)
          /\ result' = "1"
          /\ Step("done")
    /\ UNCHANGED <<fn, inp, loc, session>>

\* await asyncio.wait_for(agent_task_worker(), timeout=30.0): return True, or
\* except asyncio.TimeoutError: return False
MimicryWaitFor ==
    /\ fn = "debug_camoufox_tui_enhanced"
    /\ spc = "mimicry_wait_for"
    /\ \E o \in {"returned", "timeout"} :
            /\ Called(<<"agent_task_worker", o>>)
            /\ loc' = [loc EXCEPT !.results = Append(@, FlowReturn(o))]
    /\ Step("mimicry_finally")
    /\ UNCHANGED <<fn, inp, result, session>>

\* finally: await browser_session.close(); its exception replaces the return
\* value and leaves the process
MimicryFinally ==
    /\ fn = "debug_camoufox_tui_enhanced"
    /\ spc = "mimicry_finally"
    /\ \/ /\ Called(<<"close", "returned">>)
          /\ Step("summary")
          /\ UNCHANGED <<loc, result>>
       \/ /\ Called(<<"close", "raised">>)
          /\ loc' = [loc EXCEPT !.results = <<@[1]>>]
          /\ result' = "1"
          /\ Step("done")
    /\ UNCHANGED <<fn, inp, session>>

\* sys.exit(0 if success else 1)
ExitStatus(success) == IF success THEN "0" ELSE "1"

\* return test1_passed and test2_passed; sys.exit(...)
EnhancedExit ==
    /\ fn = "debug_camoufox_tui_enhanced"
    /\ spc = "summary"
    /\ result' = ExitStatus(loc.results[1] = "True" /\ loc.results[2] = "True")
    /\ Step("done")
    /\ UNCHANGED <<fn, inp, loc, log, session>>

\* ------------------------------------------ test_camoufox_complete.py: main
Tests ==
    <<"Native Camoufox API", "Browser-use Integration", "Shell Wrapper",
      "Advanced Script", "Stealth Features">>

\* the tests defined with async def: calling one makes a coroutine
AsyncTests == {"Native Camoufox API", "Browser-use Integration", "Stealth Features"}

\* tests = [...]: one element of the list is evaluated.  A call of an async
\* function gives a coroutine; a call of a plain function runs the test
CompleteBuildList ==
    /\ fn = "test_camoufox_complete"
    /\ spc = "begin"
    /\ LET t == Tests[loc.i]
           last == loc.i = Len(Tests)
       IN  /\ IF t \in AsyncTests
              THEN /\ loc' = [loc EXCEPT !.list = Append(@, "coroutine"),
                                         !.i = IF last THEN 1 ELSE @ + 1]
                   /\ UNCHANGED log
              ELSE \E r \in {"True", "False"} :
                       /\ loc' = [loc EXCEPT !.list = Append(@, r),
                                             !.i = IF last THEN 1 ELSE @ + 1]
                       /\ Called(<<t, r>>)
           /\ Step(IF last THEN "loop" ELSE "begin")
    /\ UNCHANGED <<fn, inp, result, session>>

\* for test_name, test_coro in tests: await a coroutine, take any other value
\* as the result; results.append(...)
CompleteLoop ==
    /\ fn = "test_camoufox_complete"
    /\ spc = "loop"
    /\ LET t == Tests[loc.i]
           last == loc.i = Len(Tests)
       IN  /\ IF loc.list[loc.i] = "coroutine"
              THEN \E r \in {"True", "False"} :
                       /\ loc' = [loc EXCEPT !.results = Append(@, <<t, r>>),
                                             !.i = IF last THEN @ ELSE @ + 1]
                       /\ Called(<<t, r>>)
              ELSE /\ loc' = [loc EXCEPT !.results = Append(@, <<t, loc.list[loc.i]>>),
                                         !.i = IF last THEN @ ELSE @ + 1]
                   /\ UNCHANGED log
           /\ Step(IF last THEN "summary" ELSE "loop")
    /\ UNCHANGED <<fn, inp, result, session>>

\* if passed == total: return 0 else: return 1
ExitCode(passed, total) == IF passed = total THEN "0" ELSE "1"

\* the summary loop counts the passed tests; sys.exit(exit_code)
CompleteExit ==
    /\ fn = "test_camoufox_complete"
    /\ spc = "summary"
    /\ result' = ExitCode(Cardinality({k \in DOMAIN loc.results : loc.results[k][2] = "True"}),
                           Len(loc.results))
    /\ Step("done")
    /\ UNCHANGED <<fn, inp, loc, log, session>>

\* ------------------------------- camoufox_advanced.py: CamoufoxManager.run_task
\* the words a task is made of; its text is the words joined by single blanks
Words == {"Navigate", "to", "go", "example.com", "https://example.org", "tomorrow.com"}

TaskTexts == UNION {[1..n -> Words] : n \in 0..MaxWords}

\* str.lower() on a word
LowerWord(w) == IF w = "Navigate" THEN "navigate" ELSE w

\* task.lower().split()
LowerWords(task) == [k \in DOMAIN task |-> LowerWord(task[k])]

\* "navigate to" in task.lower(): a word ending in 'navigate', one blank, a
\* word beginning with 'to'
ContainsNavigateTo(task) ==
    \E k \in 1..(Len(task) - 1) :
        /\ LowerWord(task[k]) \in {"navigate"}
        /\ LowerWord(task[k + 1]) \in {"to", "tomorrow.com"}

\* words.index(w) counted from one; 0 stands for its ValueError
Index(words, w) ==
    IF \E k \in DOMAIN words : words[k] = w
    THEN CHOOSE k \in DOMAIN words :
            words[k] = w /\ \A j \in DOMAIN words : words[j] = w => k <= j
    ELSE 0

\* url.startswith(('http://', 'https://'))
HasScheme(w) == w \in {"https://example.org"}

\* if not url.startswith(...): url = f"https://{url}"
WithScheme(w) == IF HasScheme(w) THEN w ELSE "https://" \o w

\* await page.goto(url); await page.wait_for_load_state(...); await page.title():
\* the calls made until one of them raises
NavigateCalls(url) ==
    LET goto(o) == <<"goto", o, url>>
    IN  { <<goto("raised")>>,
          <<goto("returned"), <<"wait_for_load_state", "raised">> >>,
          <<goto("returned"), <<"wait_for_load_state", "returned">>, <<"title", "raised">> >>,
          <<goto("returned"), <<"wait_for_load_state", "returned">>, <<"title", "returned">> >> }

\* if not self.session: raise ValueError; page = await self.session.get_current_page()
RunTaskBegin ==
    /\ fn = "run_task"
    /\ spc = "begin"
    /\ IF ~inp.session
       THEN result' = "ValueError" /\ Step("done") /\ UNCHANGED log
       ELSE \/ /\ Called(<<"get_current_page", "returned">>)
               /\ Step("task")
               /\ UNCHANGED result
            \/ /\ Called(<<"get_current_page", "raised">>)
               /\ result' = "raised"
               /\ Step("done")
    /\ UNCHANGED <<fn, inp, loc, session>>

\* the if "navigate to" in task.lower() statement
RunTaskNavigate ==
    /\ fn = "run_task"
    /\ spc = "task"
    /\ LET words == LowerWords(inp.task)
           url_idx == Index(words, "to") + 1
       IN  IF ~ContainsNavigateTo(inp.task)
           THEN result' = "returned" /\ UNCHANGED log
           ELSE IF Index(words, "to") = 0
           THEN result' = "ValueError" /\ UNCHANGED log
           ELSE IF url_idx <= Len(words)
           THEN \E calls \in NavigateCalls(WithScheme(words[url_idx])) :
                    /\ log' = log \o calls
                    /\ result' = IF calls[Len(calls)][2] = "raised"
                                 THEN "raised" ELSE "returned"
           ELSE result' = "returned" /\ UNCHANGED log
    /\ Step("done")
    /\ UNCHANGED <<fn, inp, loc, session>>

\* ------------------------------------------------ the scripts' specification
ScriptFns ==
    {"camoufox_textual_interface", "run_brave_browseruse", "run_browseruse_brave_tui",
     "debug_camoufox_fixed", "debug_camoufox_tui_enhanced", "test_camoufox_complete",
     "run_task"} \cup TryFns

\* the arguments a function is called with
ScriptInputs(f) ==
    CASE f = "run_brave_browseruse" -> [interactive : BOOLEAN, prompt : Prompts]
      [] f = "run_browseruse_brave_tui" ->
            {<<"run_browseruse_brave_tui.py">> \o u : u \in UserArgLists}
      [] f = "run_task" -> [session : BOOLEAN, task : TaskTexts]
      [] OTHER -> {None}

\* one script function is entered, with a session it has yet to start
InitScripts ==
    /\ Constructed(PlainCtor, FALSE)
    /\ \E f \in ScriptFns :
            /\ fn = f
            /\ inp \in ScriptInputs(f)
    /\ spc = "begin"
    /\ loc = NoLocals
    /\ log = << >>
    /\ result = "none"

NextScripts ==
    \/ CmEnter \/ CmBody \/ CmExit
    \/ BraveStart \/ BraveCloseFirst \/ BraveTui \/ BraveAgent \/ BraveAgentRun
    \/ BraveSleep \/ BraveFinally
    \/ TryStep \/ TryReturn
    \/ BraveTuiMain
    \/ FixedStart \/ FixedGetPage \/ FixedGoto \/ FixedBlank \/ FixedEvaluate
    \/ FixedFallback \/ FixedFinally
    \/ FlowStep \/ FlowWaitFor \/ FlowFinally \/ EnhancedMain \/ MimicrySetup
    \/ MimicryWaitFor \/ MimicryFinally \/ EnhancedExit
    \/ CompleteBuildList \/ CompleteLoop \/ CompleteExit
    \/ RunTaskBegin \/ RunTaskNavigate

SpecScripts == InitScripts /\ [][NextScripts]_vars

\* ----------------------------------------------------------------- claims
\* start() calls of the session have run with nothing going wrong: no step
\* raised, no browser died, close() was not called
Undisturbed == happened = {}

InBody == {t \in Tasks : pc[t] \in BodyPcs}

\* C1: the body of start() is run by one caller at a time, and on a session
\* that launches its own browser (no cdp_url) and on which no step fails,
\* concurrent start() calls construct AsyncCamoufox once: no second launch
\* happens, and every caller that has returned finds the one launch made and
\* the session initialized and connected.
C1_SingleLaunch ==
    /\ Cardinality(InBody) <= 1
    /\ \A t \in InBody : start_lock = <<t>>
    /\ (Undisturbed /\ ~cdp_url) =>
          /\ launches <= 1
          /\ \A t \in Tasks : ret[t] = "returned" =>
                launches = 1 /\ initialized /\ is_connected

\* both workers called start() and returned, one browser was launched
C1_Witness ==
    /\ Undisturbed
    /\ ~cdp_url
    /\ \A t \in Workers : ret[t] = "returned"
    /\ launches = 1

\* C2: a start() call that takes the lock while initialized is true and
\* is_connected() is true returns at once, and leaves browser, browser_context,
\* _camoufox_instance and the number of launches as they were (no
\* _reset_connection_state, no launch).
C2_StartIdempotent ==
    [][\A t \in Tasks :
          (pc[t] = "lock" /\ pc'[t] # "lock" /\ initialized /\ is_connected) =>
              /\ pc'[t] = "idle"
              /\ ret'[t] = "returned"
              /\ initialized'
              /\ UNCHANGED <<browser, browser_context, pages, camoufox_instance,
                             launches, launched_with, live>>]_vars

\* both workers returned from start() on an attached session: the second one
\* found it running
C2_Witness ==
    /\ cdp_url
    /\ Undisturbed
    /\ \A t \in Workers : ret[t] = "returned"
    /\ launches = 0
    /\ initialized
    /\ is_connected

\* C3: when a step of start() raises, the step that takes the exception out of
\* start() leaves initialized false, the caller holds the exception, and
\* _start_lock is free.
C3_RaiseResets ==
    [][\A t \in Tasks :
          (pc[t] \in BodyPcs /\ ret'[t] = "raised") =>
              /\ initialized' = FALSE
              /\ start_lock' = None
              /\ pc'[t] = "idle"]_vars

\* a start() raised after Camoufox was launched, and a later start() call of
\* another task is running the body
C3_Witness ==
    \E t, u \in Tasks :
        /\ ret[t] = "raised"
        /\ pc[t] = "idle"
        /\ camoufox_instance # None
        /\ launches = 1
        /\ pc[u] = "aenter"

\* C4: whenever start() returns normally, initialized is true, browser_context
\* is not None and the context has at least one page.
C4_ReturnsReady ==
    [][\A t \in Tasks :
          (pc[t] \in StartPcs /\ ret'[t] = "returned") =>
              /\ initialized'
              /\ browser_context' # None
              /\ pages' >= 1]_vars

\* start() has returned on a session whose context Camoufox created
C4_Witness ==
    /\ ret[Owner] = "returned"
    /\ pc[Owner] = "idle"
    /\ initialized
    /\ browser_context # None
    /\ browser_context = camoufox_instance
    /\ pages = 1

CloseReturns == pc[Owner] \in ClosePcs /\ pc'[Owner] = "idle"

\* C5: after a close() call returns on a session whose _camoufox_instance was
\* set, _camoufox_instance, browser and browser_context are all None.
C5_CloseClearsAll ==
    [][(CloseReturns /\ had_instance) =>
          /\ camoufox_instance' = None
          /\ browser' = None
          /\ browser_context' = None]_vars

\* C6: every call of close() calls the parent's stop() exactly once.
C6_StopOnce == [][CloseReturns => stop_calls' = 1]_vars

\* C7: close() never lets an Exception out: whatever fails inside it, close()
\* returns, and what it caught it has logged as a warning.
C7_CloseNeverRaises ==
    /\ close_ret # "raised"
    /\ close_warned => close_ret = "returned"
    /\ (close_ret = "returned" /\ stop_calls = 0) => close_warned

\* close() returned after the parent's stop() failed, and after __aexit__ failed
C7_Witness ==
    /\ close_ret = "returned"
    /\ close_warned
    /\ pc[Owner] = "idle"
    /\ stop_calls = 1
    /\ had_instance

\* C8: the options a caller gives as camoufox_options={...} (create_session
\* with stealth_mode among them) are among the keyword arguments start() passes
\* to AsyncCamoufox, with the caller's values.
C8_OptionsForwarded ==
    (launched_with # None /\ ctor.nested # None) =>
        \A k \in DOMAIN ctor.nested[1] :
            /\ k \in DOMAIN launched_with[1].options
            /\ launched_with[1].options[k] = ctor.nested[1][k]

StabilityDefaults ==
    [k \in {"gfx.webrender.software", "fission.autostart", "dom.ipc.processCount"} |->
        IF k = "gfx.webrender.software" THEN "True"
        ELSE IF k = "fission.autostart" THEN "False" ELSE "4"]

\* C9: firefox_user_prefs passed to AsyncCamoufox is the key-wise merge of the
\* stability defaults with the caller's prefs, the caller winning on shared
\* keys; args holds '--disable-gpu' and the caller's args, each exactly once.
C9_LaunchConfigMerged ==
    launched_with # None =>
        LET given == launched_with[1].firefox_user_prefs
            list == launched_with[1].args
        IN  /\ DOMAIN given = DOMAIN StabilityDefaults \cup DOMAIN ctor.prefs
            /\ \A k \in DOMAIN given :
                  given[k] = IF k \in DOMAIN ctor.prefs THEN ctor.prefs[k]
                             ELSE StabilityDefaults[k]
            /\ SeqToSet(list) = {"--disable-gpu"} \cup SeqToSet(ctor.args)
            /\ \A i, j \in DOMAIN list : i # j => list[i] # list[j]

\* a launch whose caller overrode a default pref and passed '--disable-gpu' and
\* a repeated argument itself
C9_Witness ==
    /\ launched_with # None
    /\ "dom.ipc.processCount" \in DOMAIN ctor.prefs
    /\ launched_with[1].firefox_user_prefs["dom.ipc.processCount"] = "2"
    /\ Len(ctor.args) = 3
    /\ Len(launched_with[1].args) = 2

RECURSIVE WithoutClipboard(_)
WithoutClipboard(s) ==
    IF s = << >> THEN << >>
    ELSE IF Head(s) \in {"clipboard-read", "clipboard-write"}
         THEN WithoutClipboard(Tail(s))
         ELSE <<Head(s)>> \o WithoutClipboard(Tail(s))

\* C10: a run of _setup_viewports calls grant_permissions at most once, with
\* the profile's permissions minus 'clipboard-read' and 'clipboard-write' in
\* their order, and not at all when nothing is left.
C10_GrantFiltered ==
    /\ Len(grant_calls) <= 1
    /\ \A i \in DOMAIN grant_calls :
          /\ grant_calls[i] = WithoutClipboard(ctor.permissions)
          /\ grant_calls[i] # << >>
    /\ (\E t \in Tasks : pc[t] = "new_page") =>
          (grant_calls = << >>) = (WithoutClipboard(ctor.permissions) = << >>)

\* _setup_viewports granted two of three permissions, in the profile's order
C10_Witness ==
    /\ grant_calls = << <<"notifications", "geolocation">> >>
    /\ Len(ctor.permissions) = 3

\* C11: create_camoufox_session cleans up the session it creates.  close() is
\* not called while the async with block runs; when the block has ended,
\* close() has been called exactly once if the CamoufoxBrowserSession object
\* was created (and not at all otherwise), whether the block ended normally,
\* by an exception or by cancellation; what leaves the context manager is
\* what ended the block (an exception of the body propagates, a cancellation
\* propagates), never an exception of close().
C11_SessionCleanedUp ==
    fn = "camoufox_textual_interface" =>
        /\ spc # "done" => Closes = 0
        /\ spc = "done" =>
              /\ Closes = (IF Has(<<"CamoufoxBrowserSession", "returned">>) THEN 1 ELSE 0)
              /\ result \in {"returned", "raised", "cancelled"}
              /\ result = "raised" <=> BodyRaised
              /\ result = "cancelled" <=> Has(<<"run_async", "cancelled">>)

\* the app was cancelled, close() was called and raised, the cancellation went on
C11_Witness ==
    /\ fn = "camoufox_textual_interface"
    /\ spc = "done"
    /\ Has(<<"run_async", "cancelled">>)
    /\ Has(<<"close", "raised">>)
    /\ result = "cancelled"

\* C12: in run_brave_browseruse close() is never called twice; on every path
\* on which start() returned, close() has been called exactly once when the
\* function ends; in interactive mode without a prompt it has been called
\* when textual_interface starts, and otherwise it is not called before the
\* finally clause (also when agent.run() raised).
C12_BraveClosedOnce ==
    fn = "run_brave_browseruse" =>
        /\ Closes <= 1
        /\ (spc = "done" /\ Has(<<"start", "returned">>)) => Closes = 1
        /\ spc = "textual_interface" => Closes = 1
        /\ spc \in {"Agent", "agent.run", "sleep"} => Closes = 0

\* agent.run() raised and the session was closed once
C12_Witness ==
    /\ fn = "run_brave_browseruse"
    /\ spc = "done"
    /\ Has(<<"agent.run", "raised">>)
    /\ Closes = 1

\* C13: when debug_tui, test_integration or test_browser_use_integration has
\* ended and its start() call had returned, close() has been called on the
\* session, whichever later call raised.
C13_ClosedOnEveryPath ==
    (fn \in TryFns /\ spc = "done" /\ Has(<<"start", "returned">>)) => Closes >= 1

\* C14: the argument vector run_browseruse_brave_tui.py gives to cli_main is the
\* program name, the fixed Brave options once, then the user's arguments in
\* the user's order.
C14_ArgvPassThrough ==
    (fn = "run_browseruse_brave_tui" /\ spc = "done") =>
        loc.list = <<inp[1]>> \o BraveOptions \o Tail(inp)

StepIndex(s) == CHOOSE i \in DOMAIN StartSteps : StartSteps[i] = s

\* the step of start() a task is in
Position(p) ==
    IF p \in {"aenter", "new_context"} THEN StepIndex("setup_new_browser_context")
    ELSE IF p = "new_page" THEN StepIndex("_setup_viewports")
    ELSE StepIndex(p)

\* C15: the body of start() begins with the profile preparation, goes from
\* each step to the next one of the list (prepare, setup_playwright,
\* passed_objects, browser_pid, wss_url, cdp_url, setup_new_browser_context,
\* _setup_viewports, _setup_current_page_change_listeners) and returns only
\* from the last; setup_new_browser_context launches Camoufox when there is no
\* browser context and otherwise leaves browser, browser_context,
\* _camoufox_instance and the launches as they are; nothing else launches.
C15_StartOrder ==
    [][/\ \A t \in Tasks :
            /\ (pc[t] = "lock" /\ pc'[t] \in BodyPcs) => pc'[t] = StartSteps[1]
            /\ (pc[t] \in BodyPcs /\ pc'[t] \in BodyPcs /\ pc'[t] # pc[t]) =>
                  IF pc'[t] \in InnerAwaits
                  THEN Position(pc'[t]) = Position(pc[t])
                  ELSE Position(pc'[t]) = Position(pc[t]) + 1
            /\ (pc[t] \in BodyPcs /\ pc'[t] = "idle" /\ ret'[t] = "returned") =>
                  Position(pc[t]) = Len(StartSteps)
            /\ (pc[t] = "setup_new_browser_context" /\ pc'[t] \in BodyPcs \ {pc[t]}) =>
                  IF browser_context = None
                  THEN launches' = launches + 1 /\ camoufox_instance' # camoufox_instance
                  ELSE UNCHANGED <<browser, browser_context, camoufox_instance,
                                   launches, launched_with>>
       /\ launches' # launches =>
            \E t \in Tasks : pc[t] = "setup_new_browser_context" /\ browser_context = None
      ]_vars

\* start() returned on a session attached over cdp_url: all steps were taken
\* and Camoufox was not launched
C15_Witness ==
    /\ cdp_url
    /\ Undisturbed
    /\ ret[Owner] = "returned"
    /\ browser_context = <<RemoteBrowser>>
    /\ camoufox_instance = None
    /\ launches = 0

IsFirstAttempt(e) == e[1] = "goto" /\ e[4] = "domcontentloaded"

IsFallback(e) == e[1] = "goto" /\ e[4] = "networkidle"

FirstAttempts == SelectSeq(log, IsFirstAttempt)

\* C16: when debug_camoufox_fixed has ended after the browser started and
\* gave its page, the first attempts made are the six test sites in list
\* order; a fallback attempt (networkidle) follows only a first attempt on
\* the same site that failed with 'crashed' in its message, at most once per
\* site; and the last call is close().
C16_AllSitesAttempted ==
    (fn = "debug_camoufox_fixed" /\ spc = "done"
        /\ Has(<<"get_current_page", "returned">>)) =>
        /\ [k \in DOMAIN FirstAttempts |-> FirstAttempts[k][3]] = test_sites
        /\ \A k \in DOMAIN log : IsFallback(log[k]) =>
              /\ \E j \in 1..(k - 1) :
                    /\ IsFirstAttempt(log[j])
                    /\ log[j][3] = log[k][3]
                    /\ log[j][2] \in Messages
                    /\ DetectedCrash(log[j][2])
              /\ \A j \in DOMAIN log :
                    (IsFallback(log[j]) /\ log[j][3] = log[k][3]) => j = k
        /\ log[Len(log)][1] = "close"

\* C17: once agent.run() has timed out in test_agent_execution_flow, the
\* function's result is False, the session has been closed exactly once by
\* the time the function has returned, and the TUI-mimicry test is never
\* run; and the process exits with status 0 exactly when both tests
\* returned True.
C17_TimeoutReported ==
    fn = "debug_camoufox_tui_enhanced" =>
        /\ Has(<<"agent.run", "timeout">>) =>
              /\ loc.results[1] = "False"
              /\ spc # "flow_finally" => Closes = 1
              /\ ~Has(<<"test_tui_mimicry", "called">>)
        /\ spc = "done" =>
              (result = "0" <=> loc.results = <<"True", "True">>)

\* agent.run() timed out, the session was closed and the process exited with 1
C17_Witness ==
    /\ fn = "debug_camoufox_tui_enhanced"
    /\ spc = "done"
    /\ Has(<<"agent.run", "timeout">>)
    /\ Closes = 1
    /\ result = "1"

\* C18: when main() of test_camoufox_complete.py has ended, the five tests
\* have run in the listed order, one result per test is recorded in that
\* order, and the exit code is 0 exactly when all five returned True.
C18_TestsInListedOrder ==
    (fn = "test_camoufox_complete" /\ spc = "done") =>
        /\ [k \in DOMAIN log |-> log[k][1]] = Tests
        /\ [k \in DOMAIN loc.results |-> loc.results[k][1]] = Tests
        /\ result = "0" <=> \A k \in DOMAIN loc.results : loc.results[k][2] = "True"

IsGoto(e) == e[1] = "goto"

\* the URLs run_task navigated to
Gotos == [k \in DOMAIN SelectSeq(log, IsGoto) |-> SelectSeq(log, IsGoto)[k][3]]

\* where the words 'navigate', 'to' stand first in a list of words, followed
\* by another word
FirstPhrase(words) ==
    {k \in 1..(Len(words) - 2) :
        /\ words[k] = "navigate" /\ words[k + 1] = "to"
        /\ \A j \in 1..(k - 1) : ~(words[j] = "navigate" /\ words[j + 1] = "to")}

\* C19: when run_task has ended: without a session it raised ValueError and
\* made no call; with one (and its page), a task containing 'navigate to'
\* followed by a word led to exactly one navigation, to that word with
\* 'https://' put in front unless it has a scheme, and a task not containing
\* 'navigate to' led to none.
C19_NavigatesToNamedUrl ==
    (fn = "run_task" /\ spc = "done") =>
        IF ~inp.session
        THEN result = "ValueError" /\ log = << >>
        ELSE Has(<<"get_current_page", "returned">>) =>
                /\ ~ContainsNavigateTo(inp.task) => Gotos = << >>
                /\ \A k \in FirstPhrase(LowerWords(inp.task)) :
                        Gotos = << WithScheme(LowerWords(inp.task)[k + 2]) >>

====
